---- MODULE Spec2Model ----
(***************************************************************************)
(* Weekly availability grid of the class scheduler: the per-day bit-set    *)
(* model (selectedTimes, a Record<Day, bigint>) and the mouse-drag         *)
(* paint/erase state machine of the TimeSelector component.                *)
(*                                                                         *)
(* React runs every event handler to completion and commits the state      *)
(* updates it queued before the next handler runs, so one action of the    *)
(* model is one handler together with the updater functions it queued.     *)
(*                                                                         *)
(* Around the grid: the ScheduleForm component that owns selectedTimes     *)
(* (step, tab, submission) and the derivation of the row labels.           *)
(***************************************************************************)
EXTENDS Integers, Sequences, FiniteSets, TLC

VARIABLES
    selectedTimes,  \* ScheduleForm state: Day -> bigint
    isDragging,     \* TimeSelector state
    dragDay,        \* TimeSelector state: a Day or Null
    dragAction,     \* TimeSelector state: "select", "deselect" or Null
    lastEvent,      \* history: the event handled last
    gesture,        \* history: the gesture in progress or just ended
    step,           \* ScheduleForm state: 1 or 2
    major,          \* ScheduleForm state: a string
    geData,         \* ScheduleForm state: <<data>>, or <<>> for null
    activeTab,      \* ScheduleForm state: the tab shown at step 2
    pending,        \* the fetch requests sent and not yet answered
    alertMsg,       \* the text of the last alert shown, or Null
    scheduleData,   \* the payload built by the last handleSubmit, if any
    labelIndex,     \* the row whose label was derived last, or -1
    label,          \* timeLabels[labelIndex], or Null
    outcome,        \* how the last SlotGrid call ended: "ok" or an error name
    isLoading,      \* CourseInput state
    uploadError,    \* CourseInput state error: a message or Null
    fileName,       \* CourseInput state: a name or Null
    uploads,        \* the handleFileChange calls waiting for the server
    filesChosen,    \* history: how many change events the file input had
    uploadLog,      \* history: what the last handleFileChange call did
    openClasses,    \* GeTracker state: the areas whose classes are loaded
    loadingArea,    \* GeTracker state: an area or Null
    expandedArea,   \* GeTracker state: an area or Null
    trackerError,   \* GeTracker state error: a message or Null
    fetches         \* the fetchOpenClasses calls waiting for the server

sessionVars == <<isDragging, dragDay, dragAction>>

formVars == <<step, major, geData, activeTab>>

submitVars == <<pending, alertMsg, scheduleData>>

labelVars == <<labelIndex, label>>

uploadVars == <<isLoading, uploadError, fileName, uploads, filesChosen, uploadLog>>

trackerVars == <<openClasses, loadingArea, expandedArea, trackerError, fetches>>

vars ==
    <<selectedTimes, isDragging, dragDay, dragAction, lastEvent, gesture,
      step, major, geData, activeTab, pending, alertMsg, scheduleData,
      labelIndex, label, outcome,
      isLoading, uploadError, fileName, uploads, filesChosen, uploadLog,
      openClasses, loadingArea, expandedArea, trackerError, fetches>>

----------------------------------------------------------------------------
(* Bounds of the model *)

\* number of slot rows that receive pointer events, spread over 0..59
SlotsUsed == 3

\* number of fetch requests that may be awaiting their response
MaxPending == 1

\* number of change events of the transcript file input
MaxUploads == 2

----------------------------------------------------------------------------
(* Program constants *)

NumSlots == 60

DAYS == <<"Monday", "Tuesday", "Wednesday", "Thursday", "Friday", "Saturday", "Sunday">>

days_AllSeven == DAYS

days == <<"Monday", "Tuesday", "Wednesday", "Thursday", "Friday">>

Null == "null"

AllDays == {DAYS[k] : k \in 1..Len(DAYS)}

AllSlots == 0..(NumSlots - 1)

----------------------------------------------------------------------------
(* JavaScript bigint: an arbitrary-precision two's complement integer.     *)
(* A value is a sign and a finite set of bit positions: the one-bits of a  *)
(* non-negative value, the zero-bits of a negative one (so ~x keeps the    *)
(* set and flips the sign).                                                *)

BigZero == [neg |-> FALSE, bits |-> {}]

\* 1n << BigInt(n); a negative shift count shifts right, giving 0n
ShiftLeftOne(n) == [neg |-> FALSE, bits |-> IF n >= 0 THEN {n} ELSE {}]

\* ~a
BitNot(a) == [neg |-> ~a.neg, bits |-> a.bits]

\* a & b
BitAnd(a, b) ==
    CASE ~a.neg /\ ~b.neg -> [neg |-> FALSE, bits |-> a.bits \cap b.bits]
      [] ~a.neg /\ b.neg  -> [neg |-> FALSE, bits |-> a.bits \ b.bits]
      [] a.neg /\ ~b.neg  -> [neg |-> FALSE, bits |-> b.bits \ a.bits]
      [] a.neg /\ b.neg   -> [neg |-> TRUE, bits |-> a.bits \cup b.bits]

\* a | b
BitOr(a, b) ==
    CASE ~a.neg /\ ~b.neg -> [neg |-> FALSE, bits |-> a.bits \cup b.bits]
      [] ~a.neg /\ b.neg  -> [neg |-> TRUE, bits |-> b.bits \ a.bits]
      [] a.neg /\ ~b.neg  -> [neg |-> TRUE, bits |-> a.bits \ b.bits]
      [] a.neg /\ b.neg   -> [neg |-> TRUE, bits |-> a.bits \cap b.bits]

\* a ^ b
BitXor(a, b) ==
    [neg |-> (a.neg # b.neg),
     bits |-> (a.bits \ b.bits) \cup (b.bits \ a.bits)]

----------------------------------------------------------------------------
(* SlotGrid: the Availability mapping *)

initialState == [d \in AllDays |-> BigZero]

isSlotSelected(times, day, timeIndex) ==
    BitAnd(times[day], ShiftLeftOne(timeIndex)) # BigZero

toggleSlot_Or(prev, day, timeIndex) ==
    [d \in DOMAIN prev \cup {day} |->
        IF d = day THEN BitOr(prev[day], ShiftLeftOne(timeIndex)) ELSE prev[d]]

toggleSlot_NoSpread(prev, day, timeIndex) ==
    [d \in {day} |-> BitXor(prev[day], ShiftLeftOne(timeIndex))]

\* the updater queued by toggleSlot, applied to the committed state prev
toggleSlot(prev, day, timeIndex) ==
    [d \in DOMAIN prev \cup {day} |->
        IF d = day THEN BitXor(prev[day], ShiftLeftOne(timeIndex)) ELSE prev[d]]

setSlot_Xor(prev, day, timeIndex, selected) ==
    [d \in DOMAIN prev \cup {day} |->
        IF d # day THEN prev[d]
        ELSE BitXor(prev[day], ShiftLeftOne(timeIndex))]

setSlot_NoNot(prev, day, timeIndex, selected) ==
    [d \in DOMAIN prev \cup {day} |->
        IF d # day THEN prev[d]
        ELSE IF selected THEN BitOr(prev[day], ShiftLeftOne(timeIndex))
        ELSE BitAnd(prev[day], ShiftLeftOne(timeIndex))]

\* the updater queued by setSlot, applied to the committed state prev
setSlot(prev, day, timeIndex, selected) ==
    [d \in DOMAIN prev \cup {day} |->
        IF d # day THEN prev[d]
        ELSE IF selected THEN BitOr(prev[day], ShiftLeftOne(timeIndex))
        ELSE BitAnd(prev[day], BitNot(ShiftLeftOne(timeIndex)))]

----------------------------------------------------------------------------
(* DragPainter: the handlers of TimeSelector, as functions of the rendered *)
(* state v = [selectedTimes, isDragging, dragDay, dragAction]              *)

View ==
    [selectedTimes |-> selectedTimes, isDragging |-> isDragging,
     dragDay |-> dragDay, dragAction |-> dragAction]

Commit(v) ==
    /\ selectedTimes' = v.selectedTimes
    /\ isDragging' = v.isDragging
    /\ dragDay' = v.dragDay
    /\ dragAction' = v.dragAction

handleSlotMouseDown_SetOnly(v, day, timeIndex) ==
    LET wasSelected == isSlotSelected(v.selectedTimes, day, timeIndex)
    IN  [selectedTimes |-> setSlot(v.selectedTimes, day, timeIndex, TRUE),
         isDragging |-> TRUE,
         dragDay |-> day,
         dragAction |-> IF wasSelected THEN "deselect" ELSE "select"]

handleSlotMouseDown_AfterToggle(v, day, timeIndex) ==
    LET toggled == toggleSlot(v.selectedTimes, day, timeIndex)
        wasSelected == isSlotSelected(toggled, day, timeIndex)
    IN  [selectedTimes |-> toggled,
         isDragging |-> TRUE,
         dragDay |-> day,
         dragAction |-> IF wasSelected THEN "deselect" ELSE "select"]

handleSlotMouseDown_KeepAction(v, day, timeIndex) ==
    LET wasSelected == isSlotSelected(v.selectedTimes, day, timeIndex)
    IN  [selectedTimes |-> toggleSlot(v.selectedTimes, day, timeIndex),
         isDragging |-> TRUE,
         dragDay |-> day,
         dragAction |-> IF v.isDragging THEN v.dragAction
                        ELSE IF wasSelected THEN "deselect" ELSE "select"]

handleSlotMouseDown(v, day, timeIndex) ==
    LET wasSelected == isSlotSelected(v.selectedTimes, day, timeIndex)
    IN  [selectedTimes |-> toggleSlot(v.selectedTimes, day, timeIndex),
         isDragging |-> TRUE,
         dragDay |-> day,
         dragAction |-> IF wasSelected THEN "deselect" ELSE "select"]

handleSlotMouseEnter_NoDayCheck(v, day, timeIndex) ==
    IF ~v.isDragging \/ v.dragAction = Null THEN v
    ELSE LET shouldBeSelected == (v.dragAction = "select")
             isSelected == isSlotSelected(v.selectedTimes, day, timeIndex)
         IN  IF isSelected # shouldBeSelected
             THEN [v EXCEPT !.selectedTimes =
                       setSlot(v.selectedTimes, day, timeIndex, shouldBeSelected)]
             ELSE v

handleSlotMouseEnter_Toggle(v, day, timeIndex) ==
    IF ~v.isDragging \/ v.dragDay # day \/ v.dragAction = Null THEN v
    ELSE [v EXCEPT !.selectedTimes = toggleSlot(v.selectedTimes, day, timeIndex)]

handleSlotMouseEnter_PaintOnly(v, day, timeIndex) ==
    IF ~v.isDragging \/ v.dragDay # day \/ v.dragAction = Null THEN v
    ELSE LET isSelected == isSlotSelected(v.selectedTimes, day, timeIndex)
         IN  IF ~isSelected
             THEN [v EXCEPT !.selectedTimes =
                       setSlot(v.selectedTimes, day, timeIndex, TRUE)]
             ELSE v

handleSlotMouseEnter_EraseOnly(v, day, timeIndex) ==
    IF ~v.isDragging \/ v.dragDay # day \/ v.dragAction = Null THEN v
    ELSE LET isSelected == isSlotSelected(v.selectedTimes, day, timeIndex)
         IN  IF isSelected
             THEN [v EXCEPT !.selectedTimes =
                       setSlot(v.selectedTimes, day, timeIndex, FALSE)]
             ELSE v

handleSlotMouseEnter_FollowsDay(v, day, timeIndex) ==
    IF ~v.isDragging \/ v.dragAction = Null THEN v
    ELSE LET shouldBeSelected == (v.dragAction = "select")
             isSelected == isSlotSelected(v.selectedTimes, day, timeIndex)
         IN  IF isSelected # shouldBeSelected
             THEN [v EXCEPT !.dragDay = day,
                            !.selectedTimes =
                                setSlot(v.selectedTimes, day, timeIndex, shouldBeSelected)]
             ELSE [v EXCEPT !.dragDay = day]

handleSlotMouseEnter(v, day, timeIndex) ==
    IF ~v.isDragging \/ v.dragDay # day \/ v.dragAction = Null THEN v
    ELSE LET shouldBeSelected == (v.dragAction = "select")
             isSelected == isSlotSelected(v.selectedTimes, day, timeIndex)
         IN  IF isSelected # shouldBeSelected
             THEN [v EXCEPT !.selectedTimes =
                       setSlot(v.selectedTimes, day, timeIndex, shouldBeSelected)]
             ELSE v

handleMouseUp_Noop(v) == v

handleMouseUp_KeepDay(v) ==
    [v EXCEPT !.isDragging = FALSE, !.dragAction = Null]

handleMouseUp(v) ==
    [v EXCEPT !.isDragging = FALSE, !.dragDay = Null, !.dragAction = Null]

----------------------------------------------------------------------------
(* The rendered grid: the cells that emit pointer events *)

RenderedDays == {days[k] : k \in 1..Len(days)}

\* the day columns the model sends events to: the columns are independent of
\* each other, and two of them are what a drag that crosses columns needs
PaintDays == {days[1], days[Len(days)]}

PaintSlots_ExtraRow ==
    {((k - 1) * (NumSlots - 1)) \div (SlotsUsed - 1) : k \in 1..SlotsUsed} \cup {NumSlots}

\* the slot rows the model sends events to: first, last and evenly between
PaintSlots == {((k - 1) * (NumSlots - 1)) \div (SlotsUsed - 1) : k \in 1..SlotsUsed}

\* bit timeIndex of the value of day, read off the representation
Bit(times, day, timeIndex) ==
    IF times[day].neg THEN timeIndex \notin times[day].bits
    ELSE timeIndex \in times[day].bits

NoEvent ==
    [ev |-> "none", day |-> Null, idx |-> 0, sel |-> FALSE, wasDragging |-> FALSE]

\* day, idx: the origin cell; wasSelected: its bit before the pointer-down;
\* before: the Availability before the pointer-down; entered: the rows of the
\* origin day entered since; ended: the last event was the pointer-up or
\* pointer-leave that ended it (the next event forgets the gesture)
NoGesture ==
    [day |-> Null, idx |-> 0, wasSelected |-> FALSE, before |-> initialState,
     entered |-> {}, ended |-> TRUE]

\* the analysis results handed to handleAnalysisComplete: with and without
\* a Major
AnalysisInputs == {[Major |-> ""], [Major |-> "Computer Science"]}

\* TimeSelector is rendered at step 2 on the schedule tab only
Mounted == step = 2 /\ activeTab = "schedule"

\* the value of scheduleData while handleSubmit has built no payload
NoScheduleData == [major |-> "", courses |-> "", schedule |-> Null]

\* the server's answer to an upload, as handleFileChange reads it: fetch may
\* reject; a body may fail to parse as JSON; detail and error are "" when
\* absent; text is a string that parses, a string that does not, or a value
\* that is not a string; parsed is <<>> for a falsy value and <<data>> else
NoResponse ==
    [rejects |-> FALSE, ok |-> FALSE, json |-> FALSE, detail |-> "", error |-> "",
     text |-> "none", parsed |-> <<>>]

\* what a handleFileChange call did: nothing is recorded before the first call
NoUpload ==
    [ev |-> "none", files |-> <<>>, sent |-> FALSE, response |-> NoResponse, called |-> 0,
     before |-> [isLoading |-> FALSE, error |-> Null, fileName |-> Null]]

\* CourseInput and GeTracker after construction
WidgetInit ==
    /\ isLoading = FALSE
    /\ uploadError = Null
    /\ fileName = Null
    /\ uploads = <<>>
    /\ filesChosen = 0
    /\ uploadLog = NoUpload
    /\ openClasses = {}
    /\ loadingArea = Null
    /\ expandedArea = Null
    /\ trackerError = Null
    /\ fetches = <<>>

\* nothing submitted, no label derived, no SlotGrid call made
RestInit ==
    /\ pending = <<>>
    /\ alertMsg = Null
    /\ scheduleData = NoScheduleData
    /\ labelIndex = -1
    /\ label = Null
    /\ outcome = "ok"
    /\ WidgetInit

restVars == <<formVars, submitVars, labelVars, outcome, uploadVars, trackerVars>>

\* the state in which TimeSelector is mounted for the first time: an analysis
\* has completed and the form has advanced to step 2
Init ==
    /\ selectedTimes = initialState
    /\ isDragging = FALSE
    /\ dragDay = Null
    /\ dragAction = Null
    /\ lastEvent = NoEvent
    /\ gesture = NoGesture
    /\ step = 2
    /\ major = "Computer Science"
    /\ geData = <<[Major |-> "Computer Science"]>>
    /\ activeTab = "schedule"
    /\ RestInit

\* onMouseDown of a cell
PointerDown ==
    \E day \in PaintDays, timeIndex \in PaintSlots :
        /\ Mounted
        /\ UNCHANGED restVars
        /\ Commit(handleSlotMouseDown(View, day, timeIndex))
        /\ lastEvent' = [ev |-> "down", day |-> day, idx |-> timeIndex, sel |-> FALSE,
                         wasDragging |-> isDragging]
        /\ gesture' = [day |-> day, idx |-> timeIndex,
                       wasSelected |-> Bit(selectedTimes, day, timeIndex),
                       before |-> selectedTimes,
                       entered |-> {}, ended |-> FALSE]

\* onMouseEnter of a cell
PointerEnter ==
    \E day \in PaintDays, timeIndex \in PaintSlots :
        /\ Mounted
        /\ UNCHANGED restVars
        /\ Commit(handleSlotMouseEnter(View, day, timeIndex))
        /\ lastEvent' = [ev |-> "enter", day |-> day, idx |-> timeIndex, sel |-> FALSE,
                         wasDragging |-> FALSE]
        /\ gesture' = IF gesture.ended THEN NoGesture
                      ELSE IF gesture.day = day
                      THEN [gesture EXCEPT !.entered = @ \cup {timeIndex}]
                      ELSE gesture

\* onMouseUp of the grid container
PointerUp ==
    /\ Mounted
    /\ UNCHANGED restVars
    /\ Commit(handleMouseUp(View))
    /\ lastEvent' = [NoEvent EXCEPT !.ev = "up"]
    /\ gesture' = IF gesture.ended THEN NoGesture
                  ELSE [gesture EXCEPT !.ended = TRUE]

\* onMouseLeave of the grid container
PointerLeave ==
    /\ Mounted
    /\ UNCHANGED restVars
    /\ Commit(handleMouseUp(View))
    /\ lastEvent' = [NoEvent EXCEPT !.ev = "leave"]
    /\ gesture' = IF gesture.ended THEN NoGesture
                  ELSE [gesture EXCEPT !.ended = TRUE]

Next ==
    \/ PointerDown
    \/ PointerEnter
    \/ PointerUp
    \/ PointerLeave

Spec == Init /\ [][Next]_vars

----------------------------------------------------------------------------
(* ScheduleForm: the submission gate and the serialization of selectedTimes *)

\* dayBits > 0n
BigGreaterThanZero(a) == ~a.neg /\ a.bits # {}

hasSelection_RenderedOnly(times) ==
    \E d \in DOMAIN times \cap RenderedDays : BigGreaterThanZero(times[d])

\* Object.values(selectedTimes).some(dayBits => dayBits > 0n)
hasSelection(times) ==
    \E d \in DOMAIN times : BigGreaterThanZero(times[d])

Digits == <<"0", "1", "2", "3", "4", "5", "6", "7", "8", "9">>

SetMax(S) == CHOOSE x \in S : \A y \in S : y <= x

\* decimal arithmetic on a sequence of digits, least significant first:
\* 2 * ds + carry
RECURSIVE DecDouble(_, _)
DecDouble(ds, carry) ==
    IF ds = <<>> THEN (IF carry = 0 THEN <<>> ELSE <<carry>>)
    ELSE LET t == 2 * Head(ds) + carry
         IN  <<t % 10>> \o DecDouble(Tail(ds), t \div 10)

\* ds + 1
RECURSIVE DecSucc(_)
DecSucc(ds) ==
    IF ds = <<>> THEN <<1>>
    ELSE IF Head(ds) < 9 THEN <<Head(ds) + 1>> \o Tail(ds)
    ELSE <<0>> \o DecSucc(Tail(ds))

\* the decimal digits of the number whose one-bits are bits, from bit i down
\* (Len(acc) is asked for so that acc is evaluated at every step)
RECURSIVE DecOfBits(_, _, _)
DecOfBits(bits, i, acc) ==
    IF i < 0 \/ Len(acc) < 0 THEN acc
    ELSE DecOfBits(bits, i - 1, DecDouble(acc, IF i \in bits THEN 1 ELSE 0))

\* the decimal digits of the magnitude of a, least significant first
DecMagnitude(a) ==
    LET m == IF a.bits = {} THEN <<>>
             ELSE DecOfBits(a.bits, SetMax(a.bits), <<>>)
    IN  IF a.neg THEN DecSucc(m) ELSE m

RECURSIVE DigitString(_)
DigitString(ds) ==
    IF ds = <<>> THEN ""
    ELSE DigitString(Tail(ds)) \o Digits[Head(ds) + 1]

toString_Truncated(a) ==
    LET low == [neg |-> a.neg, bits |-> {i \in a.bits : i < 53}]
        m == DecMagnitude(low)
    IN  (IF a.neg THEN "-" ELSE "") \o (IF m = <<>> THEN "0" ELSE DigitString(m))

\* value.toString() of a bigint: its exact decimal representation
toString(a) ==
    LET m == DecMagnitude(a)
    IN  (IF a.neg THEN "-" ELSE "") \o (IF m = <<>> THEN "0" ELSE DigitString(m))

KeysOf_Rendered(times) == SelectSeq(days, LAMBDA d : d \in DOMAIN times)

\* the own keys of the object in their order: every object is a copy of
\* initialState, whose keys were inserted in the order of DAYS
KeysOf(times) == SelectSeq(DAYS, LAMBDA d : d \in DOMAIN times)

RECURSIVE JoinMembers(_, _)
JoinMembers(times, keys) ==
    IF keys = <<>> THEN ""
    ELSE "\"" \o Head(keys) \o "\":\"" \o toString(times[Head(keys)]) \o "\""
         \o (IF Len(keys) > 1 THEN "," ELSE "")
         \o JoinMembers(times, Tail(keys))

\* JSON.stringify(selectedTimes, replacer): the replacer turns every bigint
\* into value.toString(), which is written as a JSON string
stringifySchedule(times) == "{" \o JoinMembers(times, KeysOf(times)) \o "}"

handleSubmit_NoGate(times, maj) ==
    [alert |-> Null,
     scheduleData |-> [major |-> maj, courses |-> "",
                       schedule |-> stringifySchedule(times)],
     sent |-> TRUE]

\* handleSubmit up to the fetch call: the alert shown (Null for none), the
\* payload built and whether the request was sent
handleSubmit(times, maj) ==
    IF ~hasSelection(times)
    THEN [alert |-> "Please select at least one time slot",
          scheduleData |-> NoScheduleData, sent |-> FALSE]
    ELSE [alert |-> Null,
          scheduleData |-> [major |-> maj, courses |-> "",
                            schedule |-> stringifySchedule(times)],
          sent |-> TRUE]

RemoveAt(seq, k) == SubSeq(seq, 1, k - 1) \o SubSeq(seq, k + 1, Len(seq))

\* the Availability values submitted: bits below and beyond 32 and 53 bits on
\* the first rendered day, the example value 0b111, and a second day
SerialBits == {0, 31, 32, 52, 53, NumSlots - 1}

SubmitInputs ==
    {[initialState EXCEPT ![days[1]] = [neg |-> FALSE, bits |-> a],
                          ![days[Len(days)]] = [neg |-> FALSE, bits |-> b]] :
     a \in (SUBSET SerialBits) \cup {{0, 1, 2}},
     b \in {{}, {NumSlots - 1}}}

SubmitInit ==
    /\ selectedTimes \in SubmitInputs
    /\ isDragging = FALSE
    /\ dragDay = Null
    /\ dragAction = Null
    /\ lastEvent = NoEvent
    /\ gesture = NoGesture
    /\ step = 2
    /\ major = "Computer Science"
    /\ geData = <<[Major |-> "Computer Science"]>>
    /\ activeTab = "schedule"
    /\ RestInit

\* the effects of a handleSubmit that ran up to its first await with result r
Submitted(r) ==
    /\ alertMsg' = IF r.alert = Null THEN alertMsg ELSE r.alert
    /\ scheduleData' = r.scheduleData
    /\ pending' = IF r.sent THEN Append(pending, scheduleData') ELSE pending

\* onSubmit of the form: handleSubmit up to its first await
Submit ==
    /\ step = 2
    /\ Len(pending) < MaxPending
    /\ Submitted(handleSubmit(selectedTimes, major))
    /\ lastEvent' = [NoEvent EXCEPT !.ev = "submit"]
    /\ UNCHANGED <<selectedTimes, sessionVars, gesture, formVars, labelVars, outcome, uploadVars, trackerVars>>

\* the rest of handleSubmit: the server answered with response.ok
RespondOk ==
    \E k \in 1..Len(pending) :
        /\ pending' = RemoveAt(pending, k)
        /\ alertMsg' = "Schedule submitted!"
        /\ lastEvent' = [NoEvent EXCEPT !.ev = "response"]
        /\ UNCHANGED <<selectedTimes, sessionVars, gesture, formVars, scheduleData,
                       labelVars, outcome, uploadVars, trackerVars>>

\* the rest of handleSubmit: the server answered with an error status
RespondNotOk ==
    \E k \in 1..Len(pending), detail \in {"", "Invalid schedule"} :
        /\ pending' = RemoveAt(pending, k)
        /\ alertMsg' = "Failed to submit schedule: "
                          \o (IF detail = "" THEN "Unknown error" ELSE detail)
        /\ lastEvent' = [NoEvent EXCEPT !.ev = "response"]
        /\ UNCHANGED <<selectedTimes, sessionVars, gesture, formVars, scheduleData,
                       labelVars, outcome, uploadVars, trackerVars>>

\* the rest of handleSubmit: fetch or response.json() threw
FetchFails ==
    \E k \in 1..Len(pending),
       error \in {"TypeError: Failed to fetch", "SyntaxError: Unexpected end of JSON input"} :
        /\ pending' = RemoveAt(pending, k)
        /\ alertMsg' = "An error occurred: " \o error
        /\ lastEvent' = [NoEvent EXCEPT !.ev = "response"]
        /\ UNCHANGED <<selectedTimes, sessionVars, gesture, formVars, scheduleData,
                       labelVars, outcome, uploadVars, trackerVars>>

SubmitNext ==
    \/ Submit
    \/ RespondOk
    \/ RespondNotOk
    \/ FetchFails

SpecSubmit == SubmitInit /\ [][SubmitNext]_vars

----------------------------------------------------------------------------
(* ScheduleForm as a whole: steps, tabs, the grid and the submission *)

handleNext_SkipsOne(s) == s + 2

handleNext(s) == s + 1

handleBack(s) == s - 1

RenderStep_NeedsMajor(s, ge) ==
    IF s = 1 /\ ge # <<>> /\ ge[1].Major # "" THEN handleNext(s) ELSE s

\* the render of ScheduleForm at step s: {geData && handleNext()} sets the
\* step while rendering step 1, and the form is rendered again before anything
\* is committed
RenderStep(s, ge) == IF s = 1 /\ ge # <<>> THEN handleNext(s) ELSE s

handleAnalysisComplete(maj, data) ==
    [geData |-> <<data>>,
     major |-> IF data.Major # "" THEN data.Major ELSE maj]

\* the cells the pointer visits while the whole form is explored
FormDays == {days[Len(days)]}

FormSlots == {0, NumSlots - 1}

FormInit ==
    /\ selectedTimes = initialState
    /\ isDragging = FALSE
    /\ dragDay = Null
    /\ dragAction = Null
    /\ lastEvent = NoEvent
    /\ gesture = NoGesture
    /\ step = 1
    /\ major = ""
    /\ geData = <<>>
    /\ activeTab = "schedule"
    /\ RestInit

\* CourseInput hands over the analysis of an upload: it is rendered at step 1
\* only and has one upload under way at a time, so this happens at step 1
AnalysisComplete ==
    \E data \in AnalysisInputs :
        LET r == handleAnalysisComplete(major, data) IN
        /\ step = 1
        /\ geData' = r.geData
        /\ major' = r.major
        /\ step' = RenderStep(step, r.geData)
        /\ lastEvent' = [NoEvent EXCEPT !.ev = "analysis"]
        /\ UNCHANGED <<selectedTimes, sessionVars, gesture, activeTab, submitVars,
                       labelVars, outcome, uploadVars, trackerVars>>

\* onClick of Back, rendered while step > 1
Back ==
    /\ step > 1
    /\ step' = RenderStep(handleBack(step), geData)
    /\ lastEvent' = [NoEvent EXCEPT !.ev = "back"]
    /\ IF step' = 2 /\ activeTab = "schedule"
       THEN UNCHANGED sessionVars
       ELSE isDragging' = FALSE /\ dragDay' = Null /\ dragAction' = Null
    /\ UNCHANGED <<selectedTimes, gesture, major, geData, activeTab, submitVars,
                   labelVars, outcome, uploadVars, trackerVars>>

SelectTab_TimesInGrid ==
    \E tab \in {"schedule", "ge-tracker", "major-tree", "more"} :
        /\ step = 2
        /\ activeTab' = tab
        /\ lastEvent' = [NoEvent EXCEPT !.ev = "tab"]
        /\ IF tab = "schedule" /\ activeTab = "schedule"
           THEN UNCHANGED <<selectedTimes, sessionVars>>
           ELSE /\ isDragging' = FALSE /\ dragDay' = Null /\ dragAction' = Null
                /\ selectedTimes' = initialState
        /\ UNCHANGED <<gesture, step, major, geData, submitVars,
                       labelVars, outcome, uploadVars, trackerVars>>

\* onClick of a tab button; TimeSelector and its state exist on the schedule
\* tab only and start afresh when the tab is shown again
SelectTab ==
    \E tab \in {"schedule", "ge-tracker", "major-tree", "more"} :
        /\ step = 2
        /\ activeTab' = tab
        /\ lastEvent' = [NoEvent EXCEPT !.ev = "tab"]
        /\ IF tab = "schedule" /\ activeTab = "schedule"
           THEN UNCHANGED sessionVars
           ELSE isDragging' = FALSE /\ dragDay' = Null /\ dragAction' = Null
        /\ UNCHANGED <<selectedTimes, gesture, step, major, geData, submitVars,
                       labelVars, outcome, uploadVars, trackerVars>>

FormPointerDown ==
    \E day \in FormDays, timeIndex \in FormSlots :
        /\ Mounted
        /\ Commit(handleSlotMouseDown(View, day, timeIndex))
        /\ lastEvent' = [ev |-> "down", day |-> day, idx |-> timeIndex, sel |-> FALSE,
                         wasDragging |-> FALSE]
        /\ UNCHANGED <<gesture, restVars>>

FormPointerEnter ==
    \E day \in FormDays, timeIndex \in FormSlots :
        /\ Mounted
        /\ Commit(handleSlotMouseEnter(View, day, timeIndex))
        /\ lastEvent' = [ev |-> "enter", day |-> day, idx |-> timeIndex, sel |-> FALSE,
                         wasDragging |-> FALSE]
        /\ UNCHANGED <<gesture, restVars>>

FormPointerUp ==
    /\ Mounted
    /\ Commit(handleMouseUp(View))
    /\ lastEvent' = [NoEvent EXCEPT !.ev = "up"]
    /\ UNCHANGED <<gesture, restVars>>

FormPointerLeave ==
    /\ Mounted
    /\ Commit(handleMouseUp(View))
    /\ lastEvent' = [NoEvent EXCEPT !.ev = "leave"]
    /\ UNCHANGED <<gesture, restVars>>

FormNext ==
    \/ AnalysisComplete
    \/ Back
    \/ SelectTab
    \/ FormPointerDown
    \/ FormPointerEnter
    \/ FormPointerUp
    \/ FormPointerLeave
    \/ Submit
    \/ RespondOk
    \/ RespondNotOk
    \/ FetchFails

SpecForm == FormInit /\ [][FormNext]_vars

----------------------------------------------------------------------------
(* CourseInput: the transcript upload *)

MAX_FILE_SIZE == 1048576

ExcelType == "application/vnd.ms-excel"

\* e.target.files: <<>> when no file was chosen, <<file>> otherwise
UploadFiles ==
    {<<>>} \cup
    {<<[type |-> t, size |-> z, name |-> n]>> :
        t \in {ExcelType, "text/csv"},
        z \in {0, MAX_FILE_SIZE - 1, MAX_FILE_SIZE, MAX_FILE_SIZE + 1},
        n \in {"fall.xls", "spring.xls"}}

\* the answers of the server and of the network to an upload
Responses ==
    {[NoResponse EXCEPT !.rejects = TRUE]}
    \cup {[NoResponse EXCEPT !.json = j, !.detail = d] :
              j \in BOOLEAN, d \in {"", "Bad file"}}
    \cup {[NoResponse EXCEPT !.ok = TRUE]}
    \cup {[NoResponse EXCEPT !.ok = TRUE, !.json = TRUE, !.error = e, !.text = t,
                             !.parsed = p] :
              e \in {"", "Quota exceeded"},
              t \in {"string", "value"},
              p \in {<<>>} \cup {<<d>> : d \in AnalysisInputs}}
    \cup {[NoResponse EXCEPT !.ok = TRUE, !.json = TRUE, !.text = "unparsable"]}

CourseView == [isLoading |-> isLoading, error |-> uploadError, fileName |-> fileName]

handleFileChange_SizeInclusive(v, files) ==
    IF files = <<>> THEN [view |-> v, sent |-> FALSE]
    ELSE LET file == files[1]
             reset == [v EXCEPT !.error = Null]
         IN  IF file.type # ExcelType
             THEN [view |-> [reset EXCEPT !.error = "Please upload a Excel file"],
                   sent |-> FALSE]
             ELSE IF file.size >= MAX_FILE_SIZE
             THEN [view |-> [reset EXCEPT !.error = "File must be less than 1MB"],
                   sent |-> FALSE]
             ELSE [view |-> [reset EXCEPT !.fileName = file.name, !.isLoading = TRUE],
                   sent |-> TRUE]

\* handleFileChange up to its first await
handleFileChange(v, files) ==
    IF files = <<>> THEN [view |-> v, sent |-> FALSE]
    ELSE LET file == files[1]
             reset == [v EXCEPT !.error = Null]
         IN  IF file.type # ExcelType
             THEN [view |-> [reset EXCEPT !.error = "Please upload a Excel file"],
                   sent |-> FALSE]
             ELSE IF file.size > MAX_FILE_SIZE
             THEN [view |-> [reset EXCEPT !.error = "File must be less than 1MB"],
                   sent |-> FALSE]
             ELSE [view |-> [reset EXCEPT !.fileName = file.name, !.isLoading = TRUE],
                   sent |-> TRUE]

Thrown(message) == [error |-> message, called |-> 0, data |-> <<>>]

afterFetch_IgnoresErrorField(r) ==
    IF r.rejects THEN Thrown("Failed to fetch")
    ELSE IF ~r.json THEN Thrown("Unexpected end of JSON input")
    ELSE IF ~r.ok
    THEN Thrown(IF r.detail # "" THEN r.detail ELSE "Failed to process Excel")
    ELSE IF r.text = "unparsable"
    THEN Thrown("Failed to parse transcript analysis results.")
    ELSE IF r.parsed = <<>>
    THEN Thrown("No analysis data received from server.")
    ELSE [error |-> Null, called |-> 1, data |-> r.parsed]

\* the try block of handleFileChange from the answer r on: the message of the
\* error it throws, or the one call of onAnalysisComplete
afterFetch(r) ==
    IF r.rejects THEN Thrown("Failed to fetch")
    ELSE IF ~r.json THEN Thrown("Unexpected end of JSON input")
    ELSE IF ~r.ok
    THEN Thrown(IF r.detail # "" THEN r.detail ELSE "Failed to process Excel")
    ELSE IF r.error # "" THEN Thrown(r.error)
    ELSE IF r.text = "unparsable"
    THEN Thrown("Failed to parse transcript analysis results.")
    ELSE IF r.parsed = <<>>
    THEN Thrown("No analysis data received from server.")
    ELSE [error |-> Null, called |-> 1, data |-> r.parsed]

UploadInit ==
    /\ selectedTimes = initialState
    /\ isDragging = FALSE
    /\ dragDay = Null
    /\ dragAction = Null
    /\ lastEvent = NoEvent
    /\ gesture = NoGesture
    /\ step = 1
    /\ major = ""
    /\ geData = <<>>
    /\ activeTab = "schedule"
    /\ RestInit

\* onChange of the file input: the upload button opens the dialog, and it is
\* there at step 1 and enabled while nothing is loading
ChooseFile ==
    \E files \in UploadFiles :
        LET r == handleFileChange(CourseView, files) IN
        /\ step = 1
        /\ ~isLoading
        /\ filesChosen < MaxUploads
        /\ filesChosen' = filesChosen + 1
        /\ isLoading' = r.view.isLoading
        /\ uploadError' = r.view.error
        /\ fileName' = r.view.fileName
        /\ uploads' = IF r.sent THEN Append(uploads, files[1].name) ELSE uploads
        /\ uploadLog' = [ev |-> "change", files |-> files, sent |-> r.sent,
                         response |-> NoResponse, called |-> 0, before |-> CourseView]
        /\ UNCHANGED <<selectedTimes, sessionVars, lastEvent, gesture, formVars,
                       submitVars, labelVars, outcome, trackerVars>>

\* the rest of handleFileChange: the answer, the catch and the finally
UploadResponds ==
    \E r \in Responses :
        LET a == afterFetch(r) IN
        /\ Len(uploads) > 0
        /\ uploads' = Tail(uploads)
        /\ uploadError' = IF a.called = 0 THEN a.error ELSE uploadError
        /\ isLoading' = FALSE
        /\ IF a.called = 1
           THEN LET h == handleAnalysisComplete(major, a.data[1]) IN
                /\ geData' = h.geData
                /\ major' = h.major
                /\ step' = RenderStep(step, h.geData)
           ELSE UNCHANGED <<geData, major, step>>
        /\ uploadLog' = [ev |-> "response", files |-> <<>>, sent |-> FALSE,
                         response |-> r, called |-> a.called, before |-> CourseView]
        /\ UNCHANGED <<selectedTimes, sessionVars, lastEvent, gesture, activeTab,
                       submitVars, labelVars, outcome, fileName, filesChosen,
                       trackerVars>>

UploadNext ==
    \/ ChooseFile
    \/ UploadResponds

SpecUpload == UploadInit /\ [][UploadNext]_vars

-----------------------------------------------------------------------------
\* GeTracker: the open classes of an area are fetched on a click of its button

\* requests for open classes that may be under way together
MaxFetches == 3

\* two of GE_AREAS that the props report as needed, so that their buttons
\* are rendered
TrackerAreas == {"A1", "A2"}

\* what the server may answer: the fetch rejects, the status is not ok, the
\* body is no JSON, or data.classes is missing, an empty list or a list
TrackerResponses ==
    {[rejects |-> TRUE, ok |-> FALSE, json |-> FALSE, classes |-> "undefined"],
     [rejects |-> FALSE, ok |-> FALSE, json |-> TRUE, classes |-> "undefined"],
     [rejects |-> FALSE, ok |-> TRUE, json |-> FALSE, classes |-> "undefined"],
     [rejects |-> FALSE, ok |-> TRUE, json |-> TRUE, classes |-> "undefined"],
     [rejects |-> FALSE, ok |-> TRUE, json |-> TRUE, classes |-> "empty"],
     [rejects |-> FALSE, ok |-> TRUE, json |-> TRUE, classes |-> "some"]}

TrackerView ==
    [openClasses |-> openClasses, loadingArea |-> loadingArea,
     expandedArea |-> expandedArea, error |-> trackerError]

\* openClasses[area] is truthy: the key is there and its value is a list
\* (an empty list is truthy as well)
hasClasses(open, area) ==
    \E e \in open : e.area = area /\ e.classes # "undefined"

\* {...prev, [area]: classes}
withClasses(prev, area, classes) ==
    {e \in prev : e.area # area} \cup {[area |-> area, classes |-> classes]}

\* fetchOpenClasses down to its await: with the classes of the area at hand
\* the list is opened or closed and nothing is sent; otherwise the area
\* becomes the loading area, the error is cleared and the request goes out
fetchOpenClasses(v, area) ==
    IF hasClasses(v.openClasses, area)
    THEN [view |-> [v EXCEPT !.expandedArea =
                        IF v.expandedArea = area THEN Null ELSE area],
          sent |-> FALSE]
    ELSE [view |-> [v EXCEPT !.loadingArea = area, !.error = Null],
          sent |-> TRUE]

\* fetchOpenClasses from the answer r on: the classes are stored and the area
\* expanded, or the message of the thrown error is set; the finally block
\* clears the loading area whichever request this was
resumeFetchOpenClasses(v, area, r) ==
    LET done ==
            IF r.rejects THEN [v EXCEPT !.error = "Failed to fetch"]
            ELSE IF ~r.ok THEN [v EXCEPT !.error = "Failed to fetch classes"]
            ELSE IF ~r.json THEN [v EXCEPT !.error = "Unexpected end of JSON input"]
            ELSE [v EXCEPT !.openClasses = withClasses(v.openClasses, area, r.classes),
                           !.expandedArea = area]
    IN [done EXCEPT !.loadingArea = Null]

\* the tracker is shown with no classes fetched
TrackerInit ==
    /\ selectedTimes = initialState
    /\ isDragging = FALSE
    /\ dragDay = Null
    /\ dragAction = Null
    /\ lastEvent = NoEvent
    /\ gesture = NoGesture
    /\ step = 2
    /\ major = ""
    /\ geData = <<[Major |-> ""]>>
    /\ activeTab = "ge-tracker"
    /\ RestInit

\* a click on the button of an area, which is disabled only while that area
\* is the loading area
ClickArea ==
    \E area \in TrackerAreas :
        LET r == fetchOpenClasses(TrackerView, area) IN
        /\ loadingArea # area
        /\ r.sent => Len(fetches) < MaxFetches
        /\ openClasses' = r.view.openClasses
        /\ loadingArea' = r.view.loadingArea
        /\ expandedArea' = r.view.expandedArea
        /\ trackerError' = r.view.error
        /\ fetches' = IF r.sent THEN Append(fetches, area) ELSE fetches
        /\ UNCHANGED <<selectedTimes, sessionVars, lastEvent, gesture, formVars,
                       submitVars, labelVars, outcome, uploadVars>>

\* one of the requests under way is answered; they may be answered in any
\* order
FetchResponds ==
    \E i \in 1..Len(fetches), r \in TrackerResponses :
        LET v == resumeFetchOpenClasses(TrackerView, fetches[i], r) IN
        /\ openClasses' = v.openClasses
        /\ loadingArea' = v.loadingArea
        /\ expandedArea' = v.expandedArea
        /\ trackerError' = v.error
        /\ fetches' = SubSeq(fetches, 1, i - 1) \o SubSeq(fetches, i + 1, Len(fetches))
        /\ UNCHANGED <<selectedTimes, sessionVars, lastEvent, gesture, formVars,
                       submitVars, labelVars, outcome, uploadVars>>

TrackerNext ==
    \/ ClickArea
    \/ FetchResponds

SpecTracker == TrackerInit /\ [][TrackerNext]_vars

----------------------------------------------------------------------------
(* timeLabels: the label of every slot row *)

\* `${n}` and n.toString() of a non-negative integer
RECURSIVE NumberToString(_)
NumberToString(n) ==
    IF n < 10 THEN Digits[n + 1]
    ELSE NumberToString(n \div 10) \o Digits[(n % 10) + 1]

\* str.padStart(targetLength, padString) for a one-character padString
RECURSIVE padStart(_, _, _)
padStart(str, targetLength, padString) ==
    IF Len(str) >= targetLength THEN str
    ELSE padStart(padString \o str, targetLength, padString)

timeLabel_NoWrap(i) ==
    LET hour == 7 + (i \div 4)
        minute == (i % 4) * 15
        hourStr == NumberToString(hour)
    IN  IF minute = 0
        THEN hourStr \o ":00 " \o (IF hour < 12 THEN "AM" ELSE "PM")
        ELSE hourStr \o ":" \o padStart(NumberToString(minute), 2, "0")

timeLabel_NoonAM(i) ==
    LET hour == 7 + (i \div 4)
        minute == (i % 4) * 15
        hourStr == IF hour = 12 THEN "12"
                   ELSE IF hour > 12 THEN NumberToString(hour - 12)
                   ELSE NumberToString(hour)
    IN  IF minute = 0
        THEN hourStr \o ":00 " \o (IF hour <= 12 THEN "AM" ELSE "PM")
        ELSE hourStr \o ":" \o padStart(NumberToString(minute), 2, "0")

\* the callback of Array.from({ length: 60 }, (_, i) => ..)
timeLabel(i) ==
    LET hour == 7 + (i \div 4)
        minute == (i % 4) * 15
        isHourMark == (minute = 0)
        hourStr == IF hour = 12 THEN "12"
                   ELSE IF hour > 12 THEN NumberToString(hour - 12)
                   ELSE NumberToString(hour)
    IN  IF isHourMark
        THEN hourStr \o ":00 " \o (IF hour < 12 THEN "AM" ELSE "PM")
        ELSE hourStr \o ":" \o padStart(NumberToString(minute), 2, "0")

timeLabels == [i \in 0..(NumSlots - 1) |-> timeLabel(i)]

\* a row of the grid is about to be rendered
LabelInit ==
    /\ selectedTimes = initialState
    /\ isDragging = FALSE
    /\ dragDay = Null
    /\ dragAction = Null
    /\ lastEvent = NoEvent
    /\ gesture = NoGesture
    /\ step = 2
    /\ major = "Computer Science"
    /\ geData = <<[Major |-> "Computer Science"]>>
    /\ activeTab = "schedule"
    /\ pending = <<>>
    /\ alertMsg = Null
    /\ scheduleData = NoScheduleData
    /\ labelIndex \in DOMAIN timeLabels
    /\ label = Null
    /\ outcome = "ok"
    /\ WidgetInit

\* timeLabels.map((label, timeIndex) => ..): the label of the row is read
RenderLabel ==
    /\ label = Null
    /\ label' = timeLabels[labelIndex]
    /\ lastEvent' = [NoEvent EXCEPT !.ev = "label", !.idx = labelIndex]
    /\ UNCHANGED <<selectedTimes, sessionVars, gesture, formVars, submitVars,
                   labelIndex, outcome, uploadVars, trackerVars>>

LabelNext == RenderLabel

SpecLabels == LabelInit /\ [][LabelNext]_vars

----------------------------------------------------------------------------
(* SlotGrid on its own: toggleSlot and setSlot applied directly to an      *)
(* Availability, on a rendered day and on a day the grid does not render   *)

GridDays == {DAYS[1], DAYS[Len(DAYS)]}

GridSlots == PaintSlots

GridInputs ==
    {[d \in AllDays |->
        IF d \in GridDays THEN [neg |-> FALSE, bits |-> f[d]] ELSE BigZero] :
     f \in [GridDays -> SUBSET GridSlots]}

GridInit ==
    /\ selectedTimes \in GridInputs
    /\ isDragging = FALSE
    /\ dragDay = Null
    /\ dragAction = Null
    /\ lastEvent = NoEvent
    /\ gesture = NoGesture
    /\ step = 2
    /\ major = "Computer Science"
    /\ geData = <<[Major |-> "Computer Science"]>>
    /\ activeTab = "schedule"
    /\ RestInit

GridToggle ==
    \E day \in GridDays, timeIndex \in GridSlots :
        /\ selectedTimes' = toggleSlot(selectedTimes, day, timeIndex)
        /\ lastEvent' = [ev |-> "toggle", day |-> day, idx |-> timeIndex, sel |-> FALSE,
                         wasDragging |-> FALSE]
        /\ UNCHANGED <<sessionVars, gesture, restVars>>

GridSet ==
    \E day \in GridDays, timeIndex \in GridSlots, selected \in BOOLEAN :
        /\ selectedTimes' = setSlot(selectedTimes, day, timeIndex, selected)
        /\ lastEvent' = [ev |-> "set", day |-> day, idx |-> timeIndex, sel |-> selected,
                         wasDragging |-> FALSE]
        /\ UNCHANGED <<sessionVars, gesture, restVars>>

GridNext ==
    \/ GridToggle
    \/ GridSet

SpecGrid == GridInit /\ [][GridNext]_vars

----------------------------------------------------------------------------
(* SlotGrid called with indices that no rendered cell has *)

\* indices below and beyond the 60 rendered rows
OutOfRange == {-1, NumSlots, NumSlots + 1}

RangeDays == {days[1]}

RangeInit == GridInit

\* isSlotSelected(day, timeIndex): the value is returned, nothing is thrown
RangeIsSelected ==
    \E day \in RangeDays, timeIndex \in OutOfRange :
        /\ lastEvent' = [ev |-> "isSelected", day |-> day, idx |-> timeIndex,
                         sel |-> isSlotSelected(selectedTimes, day, timeIndex),
                         wasDragging |-> FALSE]
        /\ outcome' = "ok"
        /\ UNCHANGED <<selectedTimes, sessionVars, gesture, formVars, submitVars,
                       labelVars, uploadVars, trackerVars>>

\* toggleSlot(day, timeIndex) and its updater: nothing is thrown
RangeToggle ==
    \E day \in RangeDays, timeIndex \in OutOfRange :
        /\ selectedTimes' = toggleSlot(selectedTimes, day, timeIndex)
        /\ lastEvent' = [ev |-> "toggle", day |-> day, idx |-> timeIndex, sel |-> FALSE,
                         wasDragging |-> FALSE]
        /\ outcome' = "ok"
        /\ UNCHANGED <<sessionVars, gesture, formVars, submitVars, labelVars, uploadVars, trackerVars>>

\* setSlot(day, timeIndex, selected) and its updater: nothing is thrown
RangeSet ==
    \E day \in RangeDays, timeIndex \in OutOfRange, selected \in BOOLEAN :
        /\ selectedTimes' = setSlot(selectedTimes, day, timeIndex, selected)
        /\ lastEvent' = [ev |-> "set", day |-> day, idx |-> timeIndex, sel |-> selected,
                         wasDragging |-> FALSE]
        /\ outcome' = "ok"
        /\ UNCHANGED <<sessionVars, gesture, formVars, submitVars, labelVars, uploadVars, trackerVars>>

RangeNext ==
    \/ RangeIsSelected
    \/ RangeToggle
    \/ RangeSet

SpecRange == RangeInit /\ [][RangeNext]_vars

----------------------------------------------------------------------------
(* SlotGrid called on a mapping that lacks the day *)

\* times[day]: <<v>> for the bigint v of a key that is there, <<>> for the
\* undefined of a key that is not
ReadDay(times, day) == IF day \in DOMAIN times THEN <<times[day]>> ELSE <<>>

\* &, ^ and | throw a TypeError when one operand is a bigint and the other
\* is not
MixesTypes(x) == x = <<>>

\* isSlotSelected(day, timeIndex) with its outcome
callIsSlotSelected(times, day, timeIndex) ==
    IF MixesTypes(ReadDay(times, day))
    THEN [outcome |-> "TypeError", times |-> times, value |-> FALSE]
    ELSE [outcome |-> "ok", times |-> times,
          value |-> isSlotSelected(times, day, timeIndex)]

callToggleSlot_UndefinedAsZero(prev, day, timeIndex) ==
    IF MixesTypes(ReadDay(prev, day))
    THEN [outcome |-> "ok", value |-> FALSE,
          times |-> [d \in DOMAIN prev \cup {day} |->
                        IF d = day THEN ShiftLeftOne(timeIndex) ELSE prev[d]]]
    ELSE [outcome |-> "ok", times |-> toggleSlot(prev, day, timeIndex),
          value |-> FALSE]

\* toggleSlot(day, timeIndex) and its updater applied to prev, with its outcome
callToggleSlot(prev, day, timeIndex) ==
    IF MixesTypes(ReadDay(prev, day))
    THEN [outcome |-> "TypeError", times |-> prev, value |-> FALSE]
    ELSE [outcome |-> "ok", times |-> toggleSlot(prev, day, timeIndex),
          value |-> FALSE]

\* setSlot(day, timeIndex, selected) and its updater applied to prev, with its
\* outcome
callSetSlot(prev, day, timeIndex, selected) ==
    IF MixesTypes(ReadDay(prev, day))
    THEN [outcome |-> "TypeError", times |-> prev, value |-> FALSE]
    ELSE [outcome |-> "ok", times |-> setSlot(prev, day, timeIndex, selected),
          value |-> FALSE]

\* mappings handed to TimeSelector that lack one of the days
MissingInputs ==
    {[d \in AllDays \ {absent} |-> m[d]] : m \in GridInputs, absent \in GridDays}

MissingInit ==
    /\ selectedTimes \in MissingInputs
    /\ isDragging = FALSE
    /\ dragDay = Null
    /\ dragAction = Null
    /\ lastEvent = NoEvent
    /\ gesture = NoGesture
    /\ step = 2
    /\ major = "Computer Science"
    /\ geData = <<[Major |-> "Computer Science"]>>
    /\ activeTab = "schedule"
    /\ RestInit

MissingIsSelected ==
    \E day \in GridDays, timeIndex \in GridSlots :
        LET r == callIsSlotSelected(selectedTimes, day, timeIndex) IN
        /\ outcome' = r.outcome
        /\ lastEvent' = [ev |-> "isSelected", day |-> day, idx |-> timeIndex,
                         sel |-> r.value, wasDragging |-> FALSE]
        /\ UNCHANGED <<selectedTimes, sessionVars, gesture, formVars, submitVars,
                       labelVars, uploadVars, trackerVars>>

MissingToggle ==
    \E day \in GridDays, timeIndex \in GridSlots :
        LET r == callToggleSlot(selectedTimes, day, timeIndex) IN
        /\ outcome' = r.outcome
        /\ selectedTimes' = r.times
        /\ lastEvent' = [ev |-> "toggle", day |-> day, idx |-> timeIndex, sel |-> FALSE,
                         wasDragging |-> FALSE]
        /\ UNCHANGED <<sessionVars, gesture, formVars, submitVars, labelVars, uploadVars, trackerVars>>

MissingSet ==
    \E day \in GridDays, timeIndex \in GridSlots, selected \in BOOLEAN :
        LET r == callSetSlot(selectedTimes, day, timeIndex, selected) IN
        /\ outcome' = r.outcome
        /\ selectedTimes' = r.times
        /\ lastEvent' = [ev |-> "set", day |-> day, idx |-> timeIndex, sel |-> selected,
                         wasDragging |-> FALSE]
        /\ UNCHANGED <<sessionVars, gesture, formVars, submitVars, labelVars, uploadVars, trackerVars>>

MissingNext ==
    \/ MissingIsSelected
    \/ MissingToggle
    \/ MissingSet

SpecMissing == MissingInit /\ [][MissingNext]_vars

----------------------------------------------------------------------------
(* Properties of the drag painter, checked under Spec *)

\* the value of day after flipping exactly bit timeIndex of v
Flipped(v, timeIndex) ==
    [neg |-> v.neg,
     bits |-> IF timeIndex \in v.bits THEN v.bits \ {timeIndex}
              ELSE v.bits \cup {timeIndex}]

\* times2 is times with cell (day, timeIndex) flipped and nothing else changed
FlipsExactly(times, times2, day, timeIndex) ==
    /\ DOMAIN times2 = DOMAIN times
    /\ \A d \in DOMAIN times :
          times2[d] = IF d = day THEN Flipped(times[d], timeIndex) ELSE times[d]

SessionUnchanged ==
    /\ isDragging' = isDragging
    /\ dragDay' = dragDay
    /\ dragAction' = dragAction

\* C1: a pointer-down on (d, i) flips bit i of day d and leaves every other
\* bit of day d and every bit of every other day unchanged.
C1_DownStep ==
    (lastEvent'.ev = "down") =>
        FlipsExactly(selectedTimes, selectedTimes', lastEvent'.day, lastEvent'.idx)

C1_GestureStartFlipsOneCell == [][C1_DownStep]_vars

\* a pointer-down has deselected the last slot of a day whose other sent
\* slots are selected
C1_Witness ==
    /\ lastEvent.ev = "down"
    /\ lastEvent.idx = NumSlots - 1
    /\ ~Bit(selectedTimes, lastEvent.day, lastEvent.idx)
    /\ \A i \in PaintSlots \ {lastEvent.idx} : Bit(selectedTimes, lastEvent.day, i)

\* C2: after a pointer-down on (d, i) in state Idle the painter is in
\* Dragging(d, action), action being erase ("deselect") if the cell was
\* selected before and paint ("select") if not; the action is paint exactly
\* when the origin cell is now selected.
C2_DownStep ==
    (lastEvent'.ev = "down" /\ ~isDragging /\ dragDay = Null /\ dragAction = Null) =>
        /\ isDragging'
        /\ dragDay' = lastEvent'.day
        /\ dragAction' = IF Bit(selectedTimes, lastEvent'.day, lastEvent'.idx)
                         THEN "deselect" ELSE "select"
        /\ (dragAction' = "select") = Bit(selectedTimes', lastEvent'.day, lastEvent'.idx)

C2_GestureStartDerivesAction == [][C2_DownStep]_vars

\* an erase gesture has just begun
C2_Witness ==
    /\ lastEvent.ev = "down"
    /\ gesture.wasSelected
    /\ isDragging
    /\ dragAction = "deselect"
    /\ dragDay = lastEvent.day

\* C3: in a gesture begun on an unselected cell, the origin cell and every
\* cell of the origin day entered before the gesture ended are selected, during
\* the gesture and when the pointer-up or pointer-leave has ended it.
C3_PaintDrag ==
    (gesture.day # Null /\ ~gesture.wasSelected) =>
        \A i \in {gesture.idx} \cup gesture.entered :
            Bit(selectedTimes, gesture.day, i)

\* a paint gesture has ended after entering two other cells, one selected and
\* one unselected before the gesture
C3_Witness ==
    /\ lastEvent.ev = "up"
    /\ gesture.ended
    /\ gesture.day # Null
    /\ ~gesture.wasSelected
    /\ \E i, j \in gesture.entered \ {gesture.idx} :
          /\ Bit(gesture.before, gesture.day, i)
          /\ ~Bit(gesture.before, gesture.day, j)

\* C4: in a gesture begun on a selected cell, the origin cell and every cell
\* of the origin day entered before the gesture ended are unselected, during
\* the gesture and when the pointer-up or pointer-leave has ended it.
C4_EraseDrag ==
    (gesture.day # Null /\ gesture.wasSelected) =>
        \A i \in {gesture.idx} \cup gesture.entered :
            ~Bit(selectedTimes, gesture.day, i)

\* an erase gesture has ended after entering two other cells, one selected and
\* one unselected before the gesture
C4_Witness ==
    /\ lastEvent.ev = "up"
    /\ gesture.ended
    /\ gesture.wasSelected
    /\ \E i, j \in gesture.entered \ {gesture.idx} :
          /\ Bit(gesture.before, gesture.day, i)
          /\ ~Bit(gesture.before, gesture.day, j)

\* C5: in Dragging(d, action) a pointer-enter on a cell of another day changes
\* neither the Availability nor the drag session.
C5_EnterStep ==
    (lastEvent'.ev = "enter" /\ isDragging /\ dragDay # lastEvent'.day) =>
        /\ selectedTimes' = selectedTimes
        /\ SessionUnchanged

C5_CrossDayConfinement == [][C5_EnterStep]_vars

\* during a paint gesture the pointer has entered an unselected cell of
\* another day
C5_Witness ==
    /\ lastEvent.ev = "enter"
    /\ isDragging
    /\ dragAction = "select"
    /\ dragDay # lastEvent.day
    /\ ~Bit(selectedTimes, lastEvent.day, lastEvent.idx)

\* C6: from a Dragging state, pointer-up and pointer-leave both lead to Idle
\* with the day and action forgotten and the Availability unchanged, so to
\* the same state.
C6_EndStep ==
    (lastEvent'.ev \in {"up", "leave"} /\ isDragging) =>
        /\ ~isDragging'
        /\ dragDay' = Null
        /\ dragAction' = Null
        /\ selectedTimes' = selectedTimes

C6_GestureEnd == [][C6_EndStep]_vars

\* the pointer has left the grid during a gesture that had entered a cell
C6_Witness ==
    /\ lastEvent.ev = "leave"
    /\ gesture.day # Null
    /\ gesture.entered # {}
    /\ ~isDragging
    /\ selectedTimes # initialState

\* C7: in Dragging(d, action) a pointer-enter on a cell of day d already in
\* the target state changes nothing, and the handler applied twice to a cell
\* gives the state it gives applied once.
C7_EnterStep ==
    (/\ lastEvent'.ev = "enter"
     /\ isDragging
     /\ dragDay = lastEvent'.day
     /\ Bit(selectedTimes, lastEvent'.day, lastEvent'.idx) = (dragAction = "select")) =>
        /\ selectedTimes' = selectedTimes
        /\ SessionUnchanged

C7_EnterTwice ==
    \A d \in AllDays, i \in PaintSlots :
        LET once == handleSlotMouseEnter(View, d, i)
        IN  handleSlotMouseEnter(once, d, i) = once

C7_EnterIdempotent == []C7_EnterTwice /\ [][C7_EnterStep]_vars

\* the pointer has re-entered a cell the gesture had already erased
C7_Witness ==
    /\ lastEvent.ev = "enter"
    /\ isDragging
    /\ dragAction = "deselect"
    /\ dragDay = lastEvent.day
    /\ lastEvent.idx \in gesture.entered
    /\ lastEvent.idx # gesture.idx
    /\ Bit(gesture.before, lastEvent.day, lastEvent.idx)
    /\ ~Bit(selectedTimes, lastEvent.day, lastEvent.idx)

----------------------------------------------------------------------------
(* Properties of the SlotGrid operations, checked under SpecGrid *)

\* C8: toggleSlot applied twice to the same cell gives back the Availability:
\* for each of the 7 x 60 cells in any state, and for the cell a step toggled.
C8_ToggleTwice ==
    \A d \in AllDays, i \in AllSlots :
        toggleSlot(toggleSlot(selectedTimes, d, i), d, i) = selectedTimes

C8_ToggleStep ==
    (lastEvent'.ev = "toggle") =>
        toggleSlot(selectedTimes', lastEvent'.day, lastEvent'.idx) = selectedTimes

C8_ToggleInvolution == []C8_ToggleTwice /\ [][C8_ToggleStep]_vars

\* the last slot of the unrendered day has been toggled off
C8_Witness ==
    /\ lastEvent.ev = "toggle"
    /\ lastEvent.day = DAYS[Len(DAYS)]
    /\ lastEvent.idx = NumSlots - 1
    /\ ~Bit(selectedTimes, lastEvent.day, lastEvent.idx)
    /\ selectedTimes # initialState

\* C9: setSlot(day, index, b) applied twice gives what it gives applied once,
\* and afterwards isSlotSelected(day, index) is b.
C9_SetTwice ==
    \A d \in AllDays, i \in AllSlots, b \in BOOLEAN :
        LET once == setSlot(selectedTimes, d, i, b)
        IN  /\ setSlot(once, d, i, b) = once
            /\ isSlotSelected(once, d, i) = b

C9_SetStep ==
    (lastEvent'.ev = "set") =>
        /\ setSlot(selectedTimes', lastEvent'.day, lastEvent'.idx, lastEvent'.sel)
              = selectedTimes'
        /\ isSlotSelected(selectedTimes', lastEvent'.day, lastEvent'.idx) = lastEvent'.sel

C9_SetIdempotent == []C9_SetTwice /\ [][C9_SetStep]_vars

\* the last slot has been cleared while other slots of the day stay selected
C9_Witness ==
    /\ lastEvent.ev = "set"
    /\ ~lastEvent.sel
    /\ lastEvent.idx = NumSlots - 1
    /\ ~Bit(selectedTimes, lastEvent.day, lastEvent.idx)
    /\ selectedTimes[lastEvent.day] # BigZero

\* C10: toggleSlot(day, index) gives the Availability that
\* setSlot(day, index, ~isSlotSelected(day, index)) gives from the same state.
C10_ToggleIsSetOfNegation ==
    \A d \in AllDays, i \in AllSlots :
        toggleSlot(selectedTimes, d, i)
            = setSlot(selectedTimes, d, i, ~isSlotSelected(selectedTimes, d, i))

\* a toggle has selected a slot of a day that has other slots selected
C10_Witness ==
    /\ lastEvent.ev = "toggle"
    /\ Bit(selectedTimes, lastEvent.day, lastEvent.idx)
    /\ \E i \in GridSlots \ {lastEvent.idx} : Bit(selectedTimes, lastEvent.day, i)

----------------------------------------------------------------------------
(* Properties of the submission gate and the serialization *)

\* C11: hasSelection is true exactly when some day has some bit set: false for
\* the all-zero Availability, and true right after setSlot(day, index, true)
\* for each of the seven days and each index in 0..59.
C11_HasSelectionState ==
    /\ hasSelection(selectedTimes)
          = (\E d \in AllDays, i \in AllSlots : Bit(selectedTimes, d, i))
    /\ ~hasSelection(initialState)
    /\ \A d \in AllDays, i \in AllSlots :
          hasSelection(setSlot(selectedTimes, d, i, TRUE))

C11_HasSelectionStep ==
    (lastEvent'.ev = "set" /\ lastEvent'.sel) => hasSelection(selectedTimes')

C11_HasAnySelection == []C11_HasSelectionState /\ [][C11_HasSelectionStep]_vars

\* the last slot of Sunday has been set in an otherwise empty Availability
C11_Witness ==
    /\ lastEvent.ev = "set"
    /\ lastEvent.sel
    /\ lastEvent.day = DAYS[Len(DAYS)]
    /\ lastEvent.idx = NumSlots - 1
    /\ \A d \in AllDays, i \in AllSlots :
          Bit(selectedTimes, d, i) = (d = lastEvent.day /\ i = lastEvent.idx)
    /\ hasSelection(selectedTimes)

\* some bit of some day is set, read off the representation
AnyBitSet(times) == \E d \in DOMAIN times : times[d].neg \/ times[d].bits # {}

\* C12: a submit with no bit set shows the notice, sends no request and builds
\* no payload; a submit sends a request only when some bit is set.
C12_SubmitStep ==
    (lastEvent'.ev = "submit") =>
        /\ ~AnyBitSet(selectedTimes) =>
              /\ alertMsg' = "Please select at least one time slot"
              /\ pending' = pending
              /\ scheduleData' = NoScheduleData
        /\ pending' # pending =>
              /\ AnyBitSet(selectedTimes)
              /\ hasSelection(selectedTimes)

C12_SubmissionGated == [][C12_SubmitStep]_vars

\* a submit of the all-zero Availability has been blocked
C12_Witness ==
    /\ lastEvent.ev = "submit"
    /\ selectedTimes = initialState
    /\ alertMsg = "Please select at least one time slot"
    /\ pending = <<>>
    /\ scheduleData = NoScheduleData

\* Monday has exactly bits 0, 1 and 2 set, every other day is empty
MondaySeven ==
    [initialState EXCEPT !["Monday"] = [neg |-> FALSE, bits |-> {0, 1, 2}]]

\* C13: the serialization of the Availability with Monday = 0b111 and every
\* other day empty has "7" for Monday and "0" for each of the other six days,
\* no day missing.
C13_SerializeExample ==
    (lastEvent.ev = "submit" /\ selectedTimes = MondaySeven) =>
        scheduleData.schedule =
            "{\"Monday\":\"7\",\"Tuesday\":\"0\",\"Wednesday\":\"0\",\"Thursday\":\"0\","
            \o "\"Friday\":\"0\",\"Saturday\":\"0\",\"Sunday\":\"0\"}"

\* the example Availability has been submitted and its request sent
C13_Witness ==
    /\ lastEvent.ev = "submit"
    /\ selectedTimes = MondaySeven
    /\ Len(pending) = 1
    /\ pending[1] = scheduleData

\* the digit a character stands for
DigitOf(c) == CHOOSE k \in 0..9 : Digits[k + 1] = c

\* halving of a decimal numeral given as digits, most significant first
RECURSIVE HalfOf(_, _)
HalfOf(ds, carry) ==
    IF ds = <<>> THEN <<>>
    ELSE LET t == 10 * carry + Head(ds)
         IN  <<t \div 2>> \o HalfOf(Tail(ds), t % 2)

\* the one-bits, from position i on, of the number a decimal numeral denotes
RECURSIVE BitsOfNumeral(_, _)
BitsOfNumeral(ds, i) ==
    IF \A k \in 1..Len(ds) : ds[k] = 0 THEN {}
    ELSE (IF ds[Len(ds)] % 2 = 1 THEN {i} ELSE {})
             \cup BitsOfNumeral(HalfOf(ds, 0), i + 1)

\* the integer a string of decimal digits denotes
ParseDecimal(str) ==
    [neg |-> FALSE,
     bits |-> BitsOfNumeral([k \in 1..Len(str) |-> DigitOf(SubSeq(str, k, k))], 0)]

\* the position of the first double quote of a text at or after position k,
\* 0 if there is none
NextQuote(str, k) ==
    IF \A j \in k..Len(str) : SubSeq(str, j, j) # "\"" THEN 0
    ELSE CHOOSE j \in k..Len(str) :
             /\ SubSeq(str, j, j) = "\""
             /\ \A m \in k..(j - 1) : SubSeq(str, m, m) # "\""

\* the quoted strings of a text, from position k on
RECURSIVE QuotedFrom(_, _, _)
QuotedFrom(str, k, acc) ==
    LET q1 == NextQuote(str, k)
    IN  IF Len(acc) < 0 \/ q1 = 0 THEN acc
        ELSE LET q2 == NextQuote(str, q1 + 1)
             IN  QuotedFrom(str, q2 + 1, Append(acc, SubSeq(str, q1 + 1, q2 - 1)))

\* the mapping that the quoted strings key, numeral, key, numeral, .. denote
MappingOf(fields) ==
    LET n == Len(fields) \div 2
    IN  [d \in {fields[2 * k - 1] : k \in 1..n} |->
            LET k == CHOOSE j \in 1..n : fields[2 * j - 1] = d
            IN  ParseDecimal(fields[2 * k])]

\* the mapping a serialized schedule denotes
ParseSchedule(str) == MappingOf(QuotedFrom(str, 1, <<>>))

\* no two days with different values have the same string
Distinct(times, strs) ==
    \A j, k \in 1..Len(DAYS) :
        times[DAYS[j]] # times[DAYS[k]] => strs[j] # strs[k]

RECURSIVE StringsOf(_, _)
StringsOf(times, n) ==
    IF n = 0 THEN <<>>
    ELSE Append(StringsOf(times, n - 1), toString(times[DAYS[n]]))

\* C14: the decimal string of every day value denotes exactly that value, so
\* different values have different strings, and the serialized schedule read
\* back gives the Availability that was submitted.
C14_SerializeExact ==
    /\ \A d \in AllDays : ParseDecimal(toString(selectedTimes[d])) = selectedTimes[d]
    /\ Distinct(selectedTimes, StringsOf(selectedTimes, Len(DAYS)))
    /\ (lastEvent.ev = "submit" /\ scheduleData # NoScheduleData)
          => ParseSchedule(scheduleData.schedule) = selectedTimes

\* a value with bits 0, 31, 32, 52, 53 and 59 set has been submitted
C14_Witness ==
    /\ lastEvent.ev = "submit"
    /\ selectedTimes["Monday"].bits = SerialBits
    /\ selectedTimes["Friday"].bits = {NumSlots - 1}
    /\ scheduleData.schedule = stringifySchedule(selectedTimes)
    /\ Len(pending) > 0

----------------------------------------------------------------------------
(* A pointer-down that arrives during a gesture, checked under Spec *)

SameView(a, b) ==
    /\ a.selectedTimes = b.selectedTimes
    /\ a.isDragging = b.isDragging
    /\ a.dragDay = b.dragDay
    /\ a.dragAction = b.dragAction

C18_DownStep ==
    (lastEvent'.ev = "down" /\ isDragging) =>
        LET d == lastEvent'.day
            i == lastEvent'.idx
            ended == handleMouseUp(View)
        IN  /\ ~ended.isDragging /\ ended.dragDay = Null /\ ended.dragAction = Null
            /\ ended.selectedTimes = selectedTimes
            /\ SameView([selectedTimes |-> selectedTimes',
                         isDragging |-> isDragging',
                         dragDay |-> dragDay',
                         dragAction |-> dragAction'],
                        handleSlotMouseDown(ended, d, i))
            /\ FlipsExactly(selectedTimes, selectedTimes', d, i)
            /\ isDragging'
            /\ dragDay' = d
            /\ dragAction' = IF Bit(selectedTimes, d, i) THEN "deselect" ELSE "select"

C18_DownAnywhere ==
    isDragging =>
        \A d \in PaintDays, i \in PaintSlots :
            SameView(handleSlotMouseDown(View, d, i),
                     handleSlotMouseDown(handleMouseUp(View), d, i))

\* C18: a pointer-down on a cell received while a gesture is active leaves the
\* Availability and the drag session exactly as a pointer-up followed by the
\* same pointer-down would: the cell is toggled and the new session is
\* Dragging on that cell's day with the action derived from its prior value.
C18_StrayDownEndsGesture == []C18_DownAnywhere /\ [][C18_DownStep]_vars

\* a pointer-down arrived during a paint gesture, on a selected cell of the
\* other day, and began an erase gesture there
C18_Witness ==
    /\ lastEvent.ev = "down"
    /\ lastEvent.wasDragging
    /\ gesture.wasSelected
    /\ isDragging
    /\ dragDay = lastEvent.day
    /\ dragAction = "deselect"
    /\ \E d \in PaintDays \ {dragDay} : gesture.before[d] # BigZero

----------------------------------------------------------------------------
(* The life of a drag session, checked under Spec *)

C23_Idle ==
    /\ ~isDragging
    /\ dragDay = Null
    /\ dragAction = Null

C23_EnterStep ==
    (/\ lastEvent'.ev = "enter"
     /\ lastEvent.ev \in {"none", "up", "leave"} \/ ~isDragging) =>
        /\ C23_Idle
        /\ selectedTimes' = selectedTimes
        /\ SessionUnchanged

\* C23: the painter starts Idle, and a pointer-enter that arrives while it is
\* Idle (at the start, or after a pointer-up or pointer-leave) changes neither
\* the Availability nor the session: the action of a finished gesture is not
\* applied again before a new pointer-down.
C23_SessionEndsWithGesture == C23_Idle /\ [][C23_EnterStep]_vars

\* after a gesture on a day had ended, the pointer entered an unselected cell
\* of that day
C23_Witness ==
    /\ lastEvent.ev = "enter"
    /\ C23_Idle
    /\ gesture = NoGesture
    /\ selectedTimes[lastEvent.day] # BigZero
    /\ ~Bit(selectedTimes, lastEvent.day, lastEvent.idx)

\* a click: pointer-down on a cell, then pointer-up
Click(v, day, timeIndex) == handleMouseUp(handleSlotMouseDown(v, day, timeIndex))

C24_ClickFlips ==
    (gesture.day # Null /\ gesture.ended /\ gesture.entered \subseteq {gesture.idx}) =>
        /\ FlipsExactly(gesture.before, selectedTimes, gesture.day, gesture.idx)
        /\ Bit(selectedTimes, gesture.day, gesture.idx) = ~gesture.wasSelected

C24_TwoClicksRestore ==
    \A d \in PaintDays, i \in PaintSlots :
        LET once == Click(View, d, i)
            twice == Click(once, d, i)
        IN  /\ FlipsExactly(selectedTimes, once.selectedTimes, d, i)
            /\ twice.selectedTimes = selectedTimes
            /\ ~twice.isDragging /\ twice.dragDay = Null /\ twice.dragAction = Null

\* C24: a pointer-down on a cell followed by the end of the gesture, with no
\* other cell of that day entered in between, flips exactly that cell
\* (selects it if it was off, deselects it if it was on), and two such clicks
\* on one cell give back the Availability.
C24_ClickToggles == C24_ClickFlips /\ C24_TwoClicksRestore

\* a click on the only selected cell has just ended and emptied the grid
C24_Witness ==
    /\ lastEvent.ev = "up"
    /\ gesture.ended
    /\ gesture.entered = {}
    /\ gesture.wasSelected
    /\ gesture.before # initialState
    /\ selectedTimes = initialState

C25_OriginKeepsValue ==
    (gesture.day # Null /\ ~gesture.ended /\ isDragging) =>
        /\ dragDay = gesture.day
        /\ Bit(selectedTimes, gesture.day, gesture.idx) = ~gesture.wasSelected
        /\ Bit(selectedTimes, gesture.day, gesture.idx) = (dragAction = "select")

C25_ReenterStep ==
    (/\ lastEvent'.ev = "enter"
     /\ isDragging
     /\ ~gesture.ended
     /\ lastEvent'.day = gesture.day
     /\ lastEvent'.idx = gesture.idx) =>
        /\ selectedTimes' = selectedTimes
        /\ SessionUnchanged

\* C25: during a gesture, every pointer-enter on the origin cell applies the
\* gesture's action and not a second toggle: the origin cell keeps the value
\* the pointer-down gave it, selected in a paint gesture and unselected in an
\* erase gesture.
C25_OriginNotToggledAgain == []C25_OriginKeepsValue /\ [][C25_ReenterStep]_vars

\* the pointer has come back to the origin cell of a paint gesture after
\* visiting another cell
C25_Witness ==
    /\ lastEvent.ev = "enter"
    /\ isDragging
    /\ dragAction = "select"
    /\ lastEvent.day = gesture.day
    /\ lastEvent.idx = gesture.idx
    /\ gesture.idx \in gesture.entered
    /\ gesture.entered # {gesture.idx}
    /\ Bit(selectedTimes, gesture.day, gesture.idx)

C26_DecisionKept ==
    (gesture.day # Null /\ ~gesture.ended /\ isDragging) =>
        /\ dragDay = gesture.day
        /\ dragAction = IF gesture.wasSelected THEN "deselect" ELSE "select"

C26_EnterStep ==
    (lastEvent'.ev = "enter") =>
        /\ isDragging' = isDragging
        /\ dragDay' = dragDay
        /\ dragAction' = dragAction

\* C26: the day and the action chosen by a pointer-down stay as they are
\* until the next pointer-up, pointer-leave or pointer-down: no pointer-enter,
\* on the same or another day, on a selected or an unselected cell, changes
\* them.
C26_DecisionFixedForGesture == []C26_DecisionKept /\ [][C26_EnterStep]_vars

\* during a paint gesture that had entered cells of its day, the pointer
\* entered a selected cell of the other day
C26_Witness ==
    /\ lastEvent.ev = "enter"
    /\ isDragging
    /\ dragAction = "select"
    /\ dragDay = gesture.day
    /\ dragDay # lastEvent.day
    /\ gesture.entered # {}
    /\ Bit(selectedTimes, lastEvent.day, lastEvent.idx)

\* C27: from the pointer-down of a gesture to its end, every day other than
\* the origin's has the value it had just before the pointer-down, and so has
\* every cell of the origin's day that is neither the origin nor a cell the
\* gesture entered.
C27_GestureFrame ==
    (gesture.day # Null) =>
        /\ DOMAIN selectedTimes = DOMAIN gesture.before
        /\ \A d \in AllDays \ {gesture.day} : selectedTimes[d] = gesture.before[d]
        /\ selectedTimes[gesture.day].neg = gesture.before[gesture.day].neg
        /\ \A i \in AllSlots \ ({gesture.idx} \cup gesture.entered) :
              Bit(selectedTimes, gesture.day, i) = Bit(gesture.before, gesture.day, i)
        /\ selectedTimes[gesture.day].bits \ AllSlots
              = gesture.before[gesture.day].bits \ AllSlots

\* an erase gesture that entered a cell has ended; a selected cell of its day
\* that it never visited and a selected cell of the other day are as before
C27_Witness ==
    /\ lastEvent.ev = "up"
    /\ gesture.ended
    /\ gesture.wasSelected
    /\ gesture.entered \ {gesture.idx} # {}
    /\ \E j \in PaintSlots \ ({gesture.idx} \cup gesture.entered) :
          /\ Bit(gesture.before, gesture.day, j)
          /\ Bit(selectedTimes, gesture.day, j)
    /\ \E d \in PaintDays \ {gesture.day} :
          selectedTimes[d] # BigZero /\ selectedTimes[d] = gesture.before[d]

\* C28: there is one session and its fields agree: the dragging flag is set
\* exactly when the drag day is not null and exactly when the drag action is
\* not null.
C28_SessionConsistent ==
    /\ isDragging \in BOOLEAN
    /\ isDragging <=> (dragDay # Null)
    /\ isDragging <=> (dragAction # Null)
    /\ dragDay \in RenderedDays \cup {Null}
    /\ dragAction \in {"select", "deselect", Null}

\* a second pointer-down has replaced the session of a gesture that had not
\* ended with a paint session
C28_Witness ==
    /\ lastEvent.ev = "down"
    /\ lastEvent.wasDragging
    /\ isDragging
    /\ dragDay = lastEvent.day
    /\ dragAction = "select"

\* C29: after any sequence of pointer events of the rendered grid every
\* day's value is a non-negative integer below 2^60: no bit at position 60 or
\* above is set, and clearing a bit does not make a value negative.
C29_BitRange ==
    \A d \in AllDays :
        /\ ~selectedTimes[d].neg
        /\ selectedTimes[d].bits \subseteq AllSlots
        /\ \A b \in selectedTimes[d].bits : b >= 0 /\ b < NumSlots

\* an erase gesture has cleared an entered cell while the last row of a day
\* is selected
C29_Witness ==
    /\ lastEvent.ev = "enter"
    /\ isDragging
    /\ dragAction = "deselect"
    /\ lastEvent.day = dragDay
    /\ lastEvent.idx # gesture.idx
    /\ Bit(gesture.before, lastEvent.day, lastEvent.idx)
    /\ ~Bit(selectedTimes, lastEvent.day, lastEvent.idx)
    /\ \E d \in PaintDays : Bit(selectedTimes, d, NumSlots - 1)

----------------------------------------------------------------------------
(* Properties of the row labels, checked under SpecLabels *)

\* C15 as claimed: the labels of rows 0, 4, 3, 28 and 59 are "7:00 AM",
\* "8:00 AM", "7:45", "12:00 PM" and "9:45".
C15_LabelExamplesClaimed ==
    (label # Null) =>
        /\ (labelIndex = 0 => label = "7:00 AM")
        /\ (labelIndex = 4 => label = "8:00 AM")
        /\ (labelIndex = 3 => label = "7:45")
        /\ (labelIndex = 28 => label = "12:00 PM")
        /\ (labelIndex = 59 => label = "9:45")

\* C15 as amended: the labels of rows 0, 4, 3, 28 and 59 are "7:00 AM",
\* "8:00 AM", "7:45", "2:00 PM" and "9:45" (row 28 starts at 14:00; the row
\* labelled "12:00 PM" is row 20).
C15_LabelExamples ==
    /\ (label # Null) =>
          /\ (labelIndex = 0 => label = "7:00 AM")
          /\ (labelIndex = 4 => label = "8:00 AM")
          /\ (labelIndex = 3 => label = "7:45")
          /\ (labelIndex = 28 => label = "2:00 PM")
          /\ (labelIndex = 59 => label = "9:45")
          /\ (label = "12:00 PM" => labelIndex = 20)

\* the label of row 28 has been derived
C15_Witness ==
    /\ lastEvent.ev = "label"
    /\ labelIndex = 28
    /\ label = "2:00 PM"

\* the 12-hour names of the hours 7..21 and the names of the quarter hours
HourNames ==
    <<"7", "8", "9", "10", "11", "12", "1", "2", "3", "4", "5", "6", "7", "8", "9">>

MinuteNames == <<"00", "15", "30", "45">>

ExpectedLabel(i) ==
    LET h == i \div 4
        q == i % 4
    IN  IF q = 0
        THEN HourNames[h + 1] \o ":00 " \o (IF h < 5 THEN "AM" ELSE "PM")
        ELSE HourNames[h + 1] \o ":" \o MinuteNames[q + 1]

\* C16: there are exactly 60 labels, and the label of row i is the 12-hour
\* name of hour 7 + i div 4 followed by ":00 AM" or ":00 PM" (PM from hour 12
\* on) on an hour mark and by ":15", ":30" or ":45" otherwise.
C16_LabelDerivation ==
    /\ DOMAIN timeLabels = AllSlots
    /\ Cardinality(DOMAIN timeLabels) = 60
    /\ \A i \in AllSlots : timeLabels[i] = ExpectedLabel(i)
    /\ (label # Null) => label = ExpectedLabel(labelIndex)

\* the label of the noon row has been derived
C16_Witness ==
    /\ lastEvent.ev = "label"
    /\ labelIndex = 20
    /\ label = "12:00 PM"

----------------------------------------------------------------------------
(* Properties of the whole form, checked under SpecForm *)

C17_InitiallyZero ==
    /\ DOMAIN selectedTimes = AllDays
    /\ \A d \in AllDays : selectedTimes[d] = BigZero

C17_KeysPresent ==
    /\ DOMAIN selectedTimes = AllDays
    /\ Cardinality(DOMAIN selectedTimes) = Len(DAYS)
    /\ \A d \in AllDays :
          /\ selectedTimes[d].neg \in BOOLEAN
          /\ selectedTimes[d].bits \subseteq Nat

\* C17: initially the mapping has all seven days with value zero, and after
\* any sequence of pointer, tab, step and submit events it still has exactly
\* one value for each of the seven days.
C17_KeyInvariant == C17_InitiallyZero /\ []C17_KeysPresent

\* cells were painted, a submission was answered, and the tab was changed
C17_Witness ==
    /\ step = 2
    /\ lastEvent.ev = "tab"
    /\ activeTab = "more"
    /\ alertMsg = "Schedule submitted!"
    /\ DOMAIN selectedTimes = AllDays
    /\ selectedTimes[days[Len(days)]].bits = FormSlots

C22_FrameStep ==
    /\ (selectedTimes' # selectedTimes) => lastEvent'.ev \in {"down", "enter"}
    /\ (lastEvent'.ev \in {"submit", "response", "tab", "back", "analysis"}) =>
          \A d \in AllDays : selectedTimes'[d] = selectedTimes[d]

\* C22: only pointer-down and pointer-enter steps change the Availability;
\* a submission (blocked, answered or failed), a tab switch, a step change and
\* the receipt of analysis data leave every day's value as it was.
C22_OnlyPainterWrites == [][C22_FrameStep]_vars

\* a failed submission of a painted cell was answered on another tab
C22_Witness ==
    /\ lastEvent.ev = "response"
    /\ alertMsg = "Failed to submit schedule: Unknown error"
    /\ activeTab = "ge-tracker"
    /\ selectedTimes[days[Len(days)]].bits = {0}
    /\ scheduleData.schedule # Null

\* the text at the end of a serialized mapping whose last two days are zero
WeekendZeroTail == ",\"Saturday\":\"0\",\"Sunday\":\"0\"}"

EndsWith(str, tail) ==
    /\ Len(str) >= Len(tail)
    /\ SubSeq(str, Len(str) - Len(tail) + 1, Len(str)) = tail

\* C30: the grid sends events for Monday to Friday only, so in every state of
\* the form Saturday and Sunday are zero, and both are still keys of the
\* mapping and of its serialization.
C30_WeekendStaysZero ==
    /\ {"Saturday", "Sunday"} \subseteq DOMAIN selectedTimes
    /\ selectedTimes["Saturday"] = BigZero
    /\ selectedTimes["Sunday"] = BigZero
    /\ {"Saturday", "Sunday"} \cap RenderedDays = {}
    /\ (scheduleData.schedule # Null) =>
          EndsWith(scheduleData.schedule, WeekendZeroTail)
    /\ \A k \in 1..Len(pending) : EndsWith(pending[k].schedule, WeekendZeroTail)

\* cells of the last rendered day were painted and the mapping was submitted
C30_Witness ==
    /\ lastEvent.ev = "submit"
    /\ Len(pending) > 0
    /\ scheduleData.schedule # Null
    /\ selectedTimes[days[Len(days)]].bits = FormSlots

C31_StepRange == step \in {1, 2}

C31_StepMoves ==
    /\ (lastEvent'.ev = "back") => (step > 1 /\ step' >= 1)
    /\ (step' # step) => (step' \in {step - 1, step + 1} /\ step' \in {1, 2})

\* C31: under any sequence of Back, analysis-complete and render events the
\* step is 1 or 2: Back is taken only while step > 1, the render-time advance
\* only at step 1, and Next, offered while step < 2, is disabled in every
\* state the form rests in at step 1.
C31_StepIsOneOrTwo == []C31_StepRange /\ [][C31_StepMoves]_vars

\* Back was pressed at step 2 of a form that has a major
C31_Witness ==
    /\ lastEvent.ev = "back"
    /\ step = 2
    /\ major = "Computer Science"

C32_NeverRestsAtOne ==
    /\ (geData # <<>>) => step = 2
    /\ (step = 1) => (geData = <<>> /\ major = "")

C32_AdvanceStep ==
    /\ (lastEvent'.ev = "back" /\ geData # <<>>) => step' = 2
    /\ (lastEvent'.ev = "analysis") => (geData' # <<>> /\ step' = 2)

\* C32: once analysis data is there the form does not rest at step 1: the
\* render at step 1 advances to step 2, after an analysis with or without a
\* major and after every Back pressed at step 2.
C32_AnalysisAdvances == []C32_NeverRestsAtOne /\ [][C32_AdvanceStep]_vars

\* Back was pressed at step 2 of a form whose analysis carried no major
C32_Witness ==
    /\ lastEvent.ev = "back"
    /\ step = 2
    /\ geData # <<>>
    /\ major = ""

----------------------------------------------------------------------------
(* Out-of-range indices, checked under SpecRange *)

C20_RangeStep ==
    (lastEvent'.ev \in {"isSelected", "toggle", "set"} /\ lastEvent'.idx \notin AllSlots) =>
        /\ outcome' = "OutOfRangeError"
        /\ selectedTimes' = selectedTimes

\* C20: isSlotSelected, setSlot and toggleSlot called with an index outside
\* 0..59 end in an OutOfRangeError and leave the mapping unchanged.
C20_OutOfRangeFailsFast == [][C20_RangeStep]_vars

----------------------------------------------------------------------------
(* A day that the mapping lacks, checked under SpecMissing *)

C21_MissingStep ==
    (/\ lastEvent'.ev \in {"isSelected", "toggle", "set"}
     /\ lastEvent'.day \notin DOMAIN selectedTimes) =>
        /\ outcome' = "TypeError"
        /\ ~lastEvent'.sel \/ lastEvent'.ev = "set"
        /\ selectedTimes' = selectedTimes
        /\ lastEvent'.day \notin DOMAIN selectedTimes'

\* C21: isSlotSelected, toggleSlot and setSlot on a day that is not a key of
\* the mapping end in an error (the TypeError of mixing undefined with a
\* bigint, which is the missing-day error of this code), return no value,
\* do not create the key and leave the mapping unchanged.
C21_MissingDayFailsFast == [][C21_MissingStep]_vars

\* a toggle of a day that the mapping lacks has failed
C21_Witness ==
    /\ lastEvent.ev = "toggle"
    /\ lastEvent.day \notin DOMAIN selectedTimes
    /\ outcome = "TypeError"
    /\ \E d \in DOMAIN selectedTimes : selectedTimes[d] # BigZero

----------------------------------------------------------------------------
(* Properties of the transcript upload, checked under SpecUpload *)

C33_Rejected(file) == file.type # ExcelType \/ file.size > MAX_FILE_SIZE

\* C33: a chosen file that is not of type application/vnd.ms-excel or is
\* larger than 1048576 bytes sets an error message and sends no request,
\* does not start loading, keeps the recorded file name and calls no
\* onAnalysisComplete; a file of the accepted type of exactly 1048576 bytes
\* is sent.
C33_UploadValidation ==
    (uploadLog.ev = "change" /\ uploadLog.files # <<>>) =>
        LET file == uploadLog.files[1] IN
        /\ C33_Rejected(file) =>
              /\ uploadError \in {"Please upload a Excel file",
                                  "File must be less than 1MB"}
              /\ ~uploadLog.sent
              /\ uploads = <<>>
              /\ ~isLoading
              /\ isLoading = uploadLog.before.isLoading
              /\ fileName = uploadLog.before.fileName
              /\ uploadLog.called = 0
              /\ geData = <<>>
        /\ (file.type = ExcelType /\ file.size = MAX_FILE_SIZE) =>
              /\ uploadLog.sent
              /\ uploads = <<file.name>>
              /\ isLoading
              /\ fileName = file.name
              /\ uploadError = Null

\* after one transcript was accepted, a file that is one byte too large was
\* chosen and refused
C33_Witness ==
    /\ uploadLog.ev = "change"
    /\ uploadLog.files # <<>>
    /\ uploadLog.files[1].type = ExcelType
    /\ uploadLog.files[1].size = MAX_FILE_SIZE + 1
    /\ uploadError = "File must be less than 1MB"
    /\ fileName # Null
    /\ fileName # uploadLog.files[1].name

C34_Usable(r) ==
    /\ ~r.rejects
    /\ r.ok
    /\ r.json
    /\ r.error = ""
    /\ r.text # "unparsable"
    /\ r.parsed # <<>>

\* C34: an upload calls onAnalysisComplete at most once, and exactly when the
\* server answered ok with a body that has no error field and whose analysis
\* data is there; on every other answer an error message is set and the
\* callback is not called; the loading flag is false when the handler is done.
C34_UploadOutcome ==
    (uploadLog.ev = "response") =>
        /\ uploadLog.called \in {0, 1}
        /\ (uploadLog.called = 1) <=> C34_Usable(uploadLog.response)
        /\ (uploadLog.called = 1) =>
              (geData = uploadLog.response.parsed /\ step = 2 /\ uploadError = Null)
        /\ (uploadLog.called = 0) =>
              (uploadError # Null /\ geData = <<>> /\ step = 1)
        /\ ~isLoading
        /\ uploads = <<>>

\* a second upload, after one that the server refused, delivered an analysis
C34_Witness ==
    /\ uploadLog.ev = "response"
    /\ uploadLog.called = 1
    /\ filesChosen = MaxUploads
    /\ geData # <<>>
    /\ step = 2
    /\ ~isLoading

\* C35: in the GE tracker every area with a request under way is the loading
\* area, no area has two requests under way at once, and the loading area is
\* empty only when no request is under way.
C35_OneFetchPerArea ==
    /\ \A i \in 1..Len(fetches) : loadingArea = fetches[i]
    /\ \A i, j \in 1..Len(fetches) : fetches[i] = fetches[j] => i = j
    /\ loadingArea = Null => fetches = <<>>

====
